---- MODULE Spec2Model ----
(***************************************************************************)
(* Research-Paper-Analyser (src/paper_analyzer.py): the text normalizer    *)
(* clean_ai_json, the heuristic extractor regex_fallback_metadata, the     *)
(* memoized extract_metadata_ai with the metadata tab that re-parses its   *)
(* result, extract_citations, and the top-level script with its length     *)
(* gate.                                                                   *)
(*                                                                         *)
(* A Python str is a sequence of characters; a character is a one-character*)
(* TLA+ string.  The backquote cannot be written inside a TLA+ string      *)
(* literal, so it is the named character Tick.                             *)
(***************************************************************************)
EXTENDS Integers, Sequences, FiniteSets, TLC

VARIABLES
    co,             \* line 15: TRUE iff the Cohere client is configured
    pc,             \* position of the script run (lines 235-386)
    text,           \* line 239: the extracted document text
    metadata_json,  \* line 264: what extract_metadata_ai returned
    metadata,       \* lines 271-286: the record the metadata tab displays
    cit_data,       \* line 358: what extract_citations returned
    meta_cache,     \* line 123: st.cache_data entries of extract_metadata_ai
    prompt_cache,   \* line 107: st.cache_data entries of call_cohere_cached
    uploads,        \* number of script runs started in this process
    chat_calls,     \* history: the texts extract_metadata_ai called co.chat for
    origin,         \* history: the model outcome behind each meta_cache entry
    invoked,        \* history: what this run has invoked so far
    hit,            \* history: this run's extract_metadata_ai was a cache hit
    arg,            \* a function called on its own: its name and argument
    ret             \* and its result

vars == <<co, pc, text, metadata_json, metadata, cit_data, meta_cache,
          prompt_cache, uploads, chat_calls, origin, invoked, hit, arg, ret>>

-----------------------------------------------------------------------------
(* Characters and Python str primitives.                                   *)

Tick == "TICK"
NL == "\n"
DQ == "\""
BS == "\\"

Digits == {"0", "1", "2", "3", "4", "5", "6", "7", "8", "9"}
UpperSeq == <<"A", "B", "C", "D", "E", "F", "G", "H", "I", "J", "K", "L", "M",
              "N", "O", "P", "Q", "R", "S", "T", "U", "V", "W", "X", "Y", "Z">>
LowerSeq == <<"a", "b", "c", "d", "e", "f", "g", "h", "i", "j", "k", "l", "m",
              "n", "o", "p", "q", "r", "s", "t", "u", "v", "w", "x", "y", "z">>
Uppers == {UpperSeq[i] : i \in 1..26}
Lowers == {LowerSeq[i] : i \in 1..26}

\* str.strip() and str.split() whitespace (the ASCII part that the inputs use)
Whitespace == {" ", NL, "\t", "\r"}
\* str.splitlines() line boundaries (the ASCII part that the inputs use)
LineBreaks == {NL, "\r"}

\* \w of the re module
IsWord(c) == c \in Digits \cup Uppers \cup Lowers \cup {"_"}

\* re.IGNORECASE folding of one character
Lower(c) ==
    IF c \in Uppers THEN LowerSeq[CHOOSE i \in 1..26 : UpperSeq[i] = c] ELSE c

Min(S) == CHOOSE m \in S : \A n \in S : m <= n
Max(S) == CHOOSE m \in S : \A n \in S : n <= m

\* the least element of a set of positions, or none when it is empty
MinOr(S, none) == IF S = {} THEN none ELSE Min(S)

\* s[i:] with i a 0-based Python offset, 0 <= i
From(s, i) == SubSeq(s, i + 1, Len(s))

\* s[-n:] for n > 0
Last(s, n) == IF Len(s) <= n THEN s ELSE SubSeq(s, Len(s) - n + 1, Len(s))

\* s[:n]
First(s, n) == IF Len(s) <= n THEN s ELSE SubSeq(s, 1, n)

\* sub occurs in s at the 1-based position p
At(s, p, sub) ==
    /\ p >= 1
    /\ p + Len(sub) - 1 <= Len(s)
    /\ \A k \in 1..Len(sub) : s[p + k - 1] = sub[k]

\* the same, ignoring case (re.I on a literal)
AtI(s, p, sub) ==
    /\ p >= 1
    /\ p + Len(sub) - 1 <= Len(s)
    /\ \A k \in 1..Len(sub) : Lower(s[p + k - 1]) = Lower(sub[k])

\* str.find: the 0-based offset of the first occurrence, or -1
Find(s, sub) == MinOr({p \in 1..Len(s) : At(s, p, sub)}, 0) - 1

\* str.count for a single character
Count(s, c) == Cardinality({p \in 1..Len(s) : s[p] = c})

RECURSIVE CutAll(_, _, _)
\* s with the occurrence of old at the offset i cut out, and so on in the
\* rest; i = -1 when there is none
CutAll(s, old, i) ==
    IF i = -1 THEN s
    ELSE SubSeq(s, 1, i)
         \o CutAll(From(s, i + Len(old)), old, Find(From(s, i + Len(old)), old))

\* s.replace(old, ""): occurrences removed left to right, without overlap
Replace(s, old) == CutAll(s, old, Find(s, old))

RECURSIVE Flatten(_, _, _)
\* ss[lo] \o ... \o ss[hi], by halving
Flatten(ss, lo, hi) ==
    IF lo > hi THEN <<>>
    ELSE IF lo = hi THEN ss[lo]
    ELSE Flatten(ss, lo, (lo + hi) \div 2)
         \o Flatten(ss, ((lo + hi) \div 2) + 1, hi)

\* str.strip()
Strip(s) ==
    LET keep == {p \in 1..Len(s) : s[p] \notin Whitespace}
    IN  IF keep = {} THEN <<>> ELSE SubSeq(s, Min(keep), Max(keep))

-----------------------------------------------------------------------------
(* clean_ai_json, lines 23-36.                                             *)

Fence == <<Tick, Tick, Tick>>
FenceJson == <<Tick, Tick, Tick, "j", "s", "o", "n">>

\* line 31 with only the "json" fence removed
StripJsonFences(s) == Replace(s, FenceJson)

\* line 31: both fence spellings removed, the longer one first
StripFences(s) == Replace(Replace(s, FenceJson), Fence)

\* line 33: the least offset of an opening brace or bracket, or -1
FirstDelimiter(s) ==
    LET found == {i \in {Find(s, <<"{">>), Find(s, <<"[">>)} : i # -1}
    IN  IF found = {} THEN -1 ELSE Min(found)

\* lines 34-36: the text before the first delimiter dropped, then strip()
DropLead(s, idx) == Strip(IF idx > 0 THEN From(s, idx) ELSE s)

\* lines 27-36 on a text that is not empty
CleanStripped(s) == DropLead(s, FirstDelimiter(s))

clean_ai_json(t) == IF t = <<>> THEN <<>> ELSE CleanStripped(StripFences(Strip(t)))

-----------------------------------------------------------------------------
(* Python values.  A value carries its type: str (a character sequence),   *)
(* int, bool, None, list (a sequence of values) and the dict json.loads    *)
(* builds (a sequence of <<key, value>> pairs in insertion order, keys     *)
(* distinct).  A dict written with literal keys in the source (the         *)
(* metadata records) is a function from the key to the value.              *)

PStr(s) == [t |-> "str", v |-> s]
PInt(n) == [t |-> "int", v |-> n]
PBool(b) == [t |-> "bool", v |-> b]
PNone == [t |-> "None", v |-> <<>>]
PList(xs) == [t |-> "list", v |-> xs]
PDict(kvs) == [t |-> "dict", v |-> kvs]

IsStr(x) == x.t = "str"

\* truthiness, as `x or ""` and any(...) test it
Truthy(x) ==
    CASE x.t = "str" -> x.v # <<>>
      [] x.t = "int" -> x.v # 0
      [] x.t = "bool" -> x.v
      [] x.t = "None" -> FALSE
      [] OTHER -> x.v # <<>>

DigitSeq == <<"0", "1", "2", "3", "4", "5", "6", "7", "8", "9">>
DigitVal(c) == (CHOOSE i \in 1..10 : DigitSeq[i] = c) - 1

RECURSIVE NatStr(_)
NatStr(n) == IF n < 10 THEN <<DigitSeq[n + 1]>>
             ELSE NatStr(n \div 10) \o <<DigitSeq[(n % 10) + 1]>>

\* str(n) of an int
IntStr(n) == IF n < 0 THEN <<"-">> \o NatStr(0 - n) ELSE NatStr(n)

\* the body of repr(str): the quote character q, the backslash and the
\* line controls escaped
ReprChars(s, q) ==
    LET Esc(c) == CASE c = q -> <<BS, q>>
                    [] c = BS -> <<BS, BS>>
                    [] c = NL -> <<BS, "n">>
                    [] c = "\t" -> <<BS, "t">>
                    [] c = "\r" -> <<BS, "r">>
                    [] OTHER -> <<c>>
    IN  Flatten([i \in 1..Len(s) |-> Esc(s[i])], 1, Len(s))

\* the quote repr(str) picks: double when the text has a single and no
\* double quote
ReprQuote(s) == IF Count(s, "'") > 0 /\ Count(s, DQ) = 0 THEN DQ ELSE "'"

Quoted(body, q) == <<q>> \o body \o <<q>>

\* repr(str)
StrRepr(s) == Quoted(ReprChars(s, ReprQuote(s)), ReprQuote(s))

RECURSIVE PyRepr(_), ReprItems(_), ReprPairs(_)
\* repr(x)
PyRepr(x) ==
    CASE x.t = "str" -> StrRepr(x.v)
      [] x.t = "int" -> IntStr(x.v)
      [] x.t = "bool" -> IF x.v THEN <<"T", "r", "u", "e">>
                         ELSE <<"F", "a", "l", "s", "e">>
      [] x.t = "None" -> <<"N", "o", "n", "e">>
      [] x.t = "list" -> <<"[">> \o ReprItems(x.v) \o <<"]">>
      [] OTHER -> <<"{">> \o ReprPairs(x.v) \o <<"}">>

ReprItems(xs) ==
    IF xs = <<>> THEN <<>>
    ELSE PyRepr(Head(xs))
         \o (IF Len(xs) > 1 THEN <<",", " ">> ELSE <<>>) \o ReprItems(Tail(xs))

ReprPairs(kvs) ==
    IF kvs = <<>> THEN <<>>
    ELSE StrRepr(Head(kvs)[1]) \o <<":", " ">> \o PyRepr(Head(kvs)[2])
         \o (IF Len(kvs) > 1 THEN <<",", " ">> ELSE <<>>) \o ReprPairs(Tail(kvs))

\* str(x): a str is itself, anything else its repr
PyStrOf(x) == IF x.t = "str" THEN x.v ELSE PyRepr(x)

DictHas(kvs, k) == \E i \in 1..Len(kvs) : kvs[i][1] = k
DictAt(kvs, k) == kvs[CHOOSE i \in 1..Len(kvs) : kvs[i][1] = k][2]

\* d[k] = v on a json.loads dict: a present key keeps its place
DictSet(kvs, k, v) ==
    IF DictHas(kvs, k)
    THEN [i \in 1..Len(kvs) |-> IF kvs[i][1] = k THEN <<k, v>> ELSE kvs[i]]
    ELSE Append(kvs, <<k, v>>)

-----------------------------------------------------------------------------
(* json.loads (line 157, line 271): the strict decoder, by recursive       *)
(* descent.  Numbers are the integers: the responses of the model carry no *)
(* fraction, exponent, NaN or Infinity, and strings no \b, \f or \u escape.*)
(* A result is [ok |-> FALSE], the JSONDecodeError, or the value with the  *)
(* position after it.                                                      *)

Fail == [ok |-> FALSE]
Ok(v, p) == [ok |-> TRUE, val |-> v, next |-> p]

\* the first position from p on that holds no JSON whitespace
SkipWs(s, p) == MinOr({q \in p..Len(s) : s[q] \notin Whitespace}, Len(s) + 1)

Unescape(e) ==
    CASE e = "n" -> NL
      [] e = "t" -> "\t"
      [] e = "r" -> "\r"
      [] OTHER -> e

\* the number of backslashes that end right before position i, from p on
SlashesBefore(s, p, i) ==
    LET other == {j \in p..(i - 1) : s[j] # BS}
    IN  IF other = {} THEN i - p ELSE i - 1 - Max(other)

\* position i, at or after p, starts an escape sequence
EscapeStart(s, p, i) == s[i] = BS /\ SlashesBefore(s, p, i) % 2 = 0

\* position i, after p, is the second character of an escape sequence
Escaped(s, p, i) == i > p /\ EscapeStart(s, p, i - 1)

\* the characters of s from p to q - 1 decoded, or the failure of a raw
\* control character or an unknown escape among them
DecodeString(s, p, q) ==
    LET Dec(i) == IF EscapeStart(s, p, i) THEN <<>>
                  ELSE IF Escaped(s, p, i) THEN <<Unescape(s[i])>>
                  ELSE <<s[i]>>
    IN  IF \E i \in p..(q - 1) :
               \/ s[i] \in {NL, "\t", "\r"}
               \/ Escaped(s, p, i) /\ s[i] \notin {DQ, BS, "/", "n", "t", "r"}
        THEN Fail
        ELSE Ok(Flatten([i \in 1..(q - p) |-> Dec(p + i - 1)], 1, q - p), q + 1)

\* a JSON string whose opening quote is at p - 1 and whose closing quote,
\* the first quote no backslash escapes, is at q (0: there is none)
StringTo(s, p, q) == IF q = 0 THEN Fail ELSE DecodeString(s, p, q)

ParseString(s, p) ==
    StringTo(s, p, MinOr({q \in p..Len(s) : s[q] = DQ /\ ~Escaped(s, p, q)}, 0))

\* the position after the run of digits that starts at p
DigitsEnd(s, p) == MinOr({q \in p..Len(s) : s[q] \notin Digits}, Len(s) + 1)

RECURSIVE NatOf(_, _, _, _)
NatOf(s, p, q, acc) ==
    IF p >= q THEN acc ELSE NatOf(s, p + 1, q, 10 * acc + DigitVal(s[p]))

\* the digits of an integer from d to e - 1, negated when neg
NumberTo(s, d, e, neg) ==
    IF e <= Len(s) /\ s[e] \in {".", "e", "E"} THEN Fail
    ELSE Ok(PInt(IF neg THEN 0 - NatOf(s, d, e, 0) ELSE NatOf(s, d, e, 0)), e)

\* (0|[1-9]\d*) at d
Digits1(s, d, neg) ==
    IF d > Len(s) \/ s[d] \notin Digits THEN Fail
    ELSE NumberTo(s, d, IF s[d] = "0" THEN d + 1 ELSE DigitsEnd(s, d), neg)

\* -?(0|[1-9]\d*)
ParseNumber(s, p) == IF s[p] = "-" THEN Digits1(s, p + 1, TRUE) ELSE Digits1(s, p, FALSE)

\* a parsed string as a value
AsStr(r) == IF r.ok THEN Ok(PStr(r.val), r.next) ELSE Fail

RECURSIVE ParseValue(_, _), ParseElements(_, _, _), ParseMembers(_, _, _)
RECURSIVE AfterElement(_, _, _), AfterKey(_, _, _), AfterColon(_, _, _, _)
RECURSIVE AfterMember(_, _, _), ElementParsed(_, _, _), MemberParsed(_, _, _, _)
RECURSIVE ParseArray(_, _), ParseObject(_, _)

ParseValue(s, p) ==
    IF p > Len(s) THEN Fail
    ELSE CASE s[p] = DQ -> AsStr(ParseString(s, p + 1))
           [] s[p] = "{" -> ParseObject(s, SkipWs(s, p + 1))
           [] s[p] = "[" -> ParseArray(s, SkipWs(s, p + 1))
           [] At(s, p, <<"n", "u", "l", "l">>) -> Ok(PNone, p + 4)
           [] At(s, p, <<"t", "r", "u", "e">>) -> Ok(PBool(TRUE), p + 4)
           [] At(s, p, <<"f", "a", "l", "s", "e">>) -> Ok(PBool(FALSE), p + 5)
           [] s[p] \in Digits \cup {"-"} -> ParseNumber(s, p)
           [] OTHER -> Fail

\* an array whose first element, or closing bracket, is at q
ParseArray(s, q) ==
    IF q <= Len(s) /\ s[q] = "]" THEN Ok(PList(<<>>), q + 1)
    ELSE ParseElements(s, q, <<>>)

\* an object whose first key, or closing brace, is at q
ParseObject(s, q) ==
    IF q <= Len(s) /\ s[q] = "}" THEN Ok(PDict(<<>>), q + 1)
    ELSE ParseMembers(s, q, <<>>)

\* the elements of an array, p at the next one
ParseElements(s, p, acc) == ElementParsed(s, ParseValue(s, p), acc)

ElementParsed(s, r, acc) ==
    IF ~r.ok THEN Fail
    ELSE AfterElement(s, SkipWs(s, r.next), Append(acc, r.val))

\* q is at the comma or the closing bracket after an element
AfterElement(s, q, acc) ==
    IF q > Len(s) THEN Fail
    ELSE IF s[q] = "," THEN ParseElements(s, SkipWs(s, q + 1), acc)
    ELSE IF s[q] = "]" THEN Ok(PList(acc), q + 1)
    ELSE Fail

\* the members of an object, p at the next key's opening quote
ParseMembers(s, p, acc) ==
    IF p > Len(s) \/ s[p] # DQ THEN Fail
    ELSE AfterKey(s, ParseString(s, p + 1), acc)

AfterKey(s, k, acc) ==
    IF ~k.ok THEN Fail ELSE AfterColon(s, SkipWs(s, k.next), k.val, acc)

\* c is at the colon after the key
AfterColon(s, c, key, acc) ==
    IF c > Len(s) \/ s[c] # ":" THEN Fail
    ELSE MemberParsed(s, ParseValue(s, SkipWs(s, c + 1)), key, acc)

MemberParsed(s, r, key, acc) ==
    IF ~r.ok THEN Fail
    ELSE AfterMember(s, SkipWs(s, r.next), DictSet(acc, key, r.val))

\* q is at the comma or the closing brace after a member
AfterMember(s, q, kvs) ==
    IF q > Len(s) THEN Fail
    ELSE IF s[q] = "," THEN ParseMembers(s, SkipWs(s, q + 1), kvs)
    ELSE IF s[q] = "}" THEN Ok(PDict(kvs), q + 1)
    ELSE Fail

\* the document ends after the value and its trailing whitespace
WholeDocument(s, r) ==
    IF r.ok /\ SkipWs(s, r.next) = Len(s) + 1 THEN r ELSE Fail

\* json.loads(s)
json_loads(s) == WholeDocument(s, ParseValue(s, SkipWs(s, 1)))

-----------------------------------------------------------------------------
(* json.dumps of a metadata record (lines 130, 166, 170).                  *)

Keys == <<"title", "authors", "journal", "year", "doi">>
KeySet == {"title", "authors", "journal", "year", "doi"}
KeyChars ==
    [title |-> <<"t", "i", "t", "l", "e">>,
     authors |-> <<"a", "u", "t", "h", "o", "r", "s">>,
     journal |-> <<"j", "o", "u", "r", "n", "a", "l">>,
     year |-> <<"y", "e", "a", "r">>,
     doi |-> <<"d", "o", "i">>]

\* the body of a JSON string: the quote, the backslash and the line
\* controls escaped
JsonChars(s) ==
    LET Esc(c) == CASE c = DQ -> <<BS, DQ>>
                    [] c = BS -> <<BS, BS>>
                    [] c = NL -> <<BS, "n">>
                    [] c = "\t" -> <<BS, "t">>
                    [] c = "\r" -> <<BS, "r">>
                    [] OTHER -> <<c>>
    IN  Flatten([i \in 1..Len(s) |-> Esc(s[i])], 1, Len(s))

JsonString(s) == Quoted(JsonChars(s), DQ)

RECURSIVE DumpItems(_, _)
\* "key": "value" items in the order ks, ", " between them
DumpItems(md, ks) ==
    IF ks = <<>> THEN <<>>
    ELSE JsonString(KeyChars[Head(ks)]) \o <<":", " ">>
         \o JsonString(md[Head(ks)].v)
         \o (IF Len(ks) > 1 THEN <<",", " ">> ELSE <<>>)
         \o DumpItems(md, Tail(ks))

\* json.dumps(md) of a record whose values are str, its keys in the order
\* of the literal of line 41
json_dumps(md) ==
    <<"{">> \o DumpItems(md, SelectSeq(Keys, LAMBDA k : k \in DOMAIN md)) \o <<"}">>

-----------------------------------------------------------------------------
(* The patterns of the re module that the program uses.                    *)

\* \b before position p (1 <= p <= Len(s) + 1): exactly one of the
\* neighbours is a word character
Boundary(s, p) ==
    (p >= 2 /\ p - 1 <= Len(s) /\ IsWord(s[p - 1]))
        # (p >= 1 /\ p <= Len(s) /\ IsWord(s[p]))

\* [-._;()/:A-Z0-9] under re.IGNORECASE
DoiChars == {"-", ".", "_", ";", "(", ")", "/", ":"} \cup Digits \cup Uppers \cup Lowers

\* the position after the run of DOI characters that starts at p
DoiRunEnd(s, p) == MinOr({q \in p..Len(s) : s[q] \notin DoiChars}, Len(s) + 1)

\* the suffix [-._;()/:A-Z0-9]+\b from the position d + 1 on: greedy, it
\* gives characters back until \b holds; 0 when it never does
DoiSuffixEnd(s, d) ==
    LET ends == {e \in (d + 2)..DoiRunEnd(s, d + 1) : Boundary(s, e)}
    IN  IF ends = {} THEN 0 ELSE Max(ends)

\* \d{4,9}/ from p + 3 on, d the position after the run of digits: the
\* run is taken whole, since "/" must follow it
DoiDigits(s, p, d) ==
    IF d - (p + 3) >= 4 /\ d - (p + 3) <= 9 /\ d <= Len(s) /\ s[d] = "/"
    THEN DoiSuffixEnd(s, d) ELSE 0

\* DOI_RE (line 19) matched at p: the position after the match, or 0
DoiEnd(s, p) ==
    IF Boundary(s, p) /\ At(s, p, <<"1", "0", ".">>)
    THEN DoiDigits(s, p, DigitsEnd(s, p + 3)) ELSE 0

\* DOI_RE.search(s): the position of the leftmost match, or 0
DoiStart(s) == MinOr({p \in 1..Len(s) : DoiEnd(s, p) # 0}, 0)

\* \b(19|20)\d{2}\b (line 49) matched at p
YearAt(s, p) ==
    /\ Boundary(s, p)
    /\ At(s, p, <<"1", "9">>) \/ At(s, p, <<"2", "0">>)
    /\ p + 3 <= Len(s)
    /\ s[p + 2] \in Digits /\ s[p + 3] \in Digits
    /\ Boundary(s, p + 4)

\* \b\d{4}\b (lines 205, 216) found in s
HasFourDigits(s) ==
    \E p \in 1..Len(s) :
        /\ Boundary(s, p)
        /\ p + 3 <= Len(s)
        /\ \A k \in 0..3 : s[p + k] \in Digits
        /\ Boundary(s, p + 4)

AffiliationWords ==
    {<<"u", "n", "i", "v", "e", "r", "s", "i", "t", "y">>,
     <<"d", "e", "p", "t">>,
     <<"d", "e", "p", "a", "r", "t", "m", "e", "n", "t">>,
     <<"@">>,
     <<"i", "n", "s", "t", "i", "t", "u", "t", "e">>,
     <<"l", "a", "b", "o", "r", "a", "t", "o", "r", "y">>,
     <<"s", "c", "h", "o", "o", "l">>}

\* university|dept|department|@|institute|laboratory|school, re.I (line 71)
LooksLikeAffiliation(s) ==
    \E p \in 1..Len(s) : \E w \in AffiliationWords : AtI(s, p, w)

JournalWords ==
    {<<"J", "o", "u", "r", "n", "a", "l">>,
     <<"P", "r", "o", "c", "e", "e", "d", "i", "n", "g", "s">>,
     <<"C", "o", "n", "f", "e", "r", "e", "n", "c", "e">>,
     <<"T", "r", "a", "n", "s", "a", "c", "t", "i", "o", "n", "s">>,
     <<"I", "E", "E", "E">>,
     <<"A", "C", "M">>,
     <<"S", "p", "r", "i", "n", "g", "e", "r">>,
     <<"E", "l", "s", "e", "v", "i", "e", "r">>}

\* \b(Journal|...|Elsevier)\b, re.I (line 78)
LooksLikeJournal(s) ==
    \E p \in 1..Len(s) : \E w \in JournalWords :
        Boundary(s, p) /\ AtI(s, p, w) /\ Boundary(s, p + Len(w))

HeadingWords ==
    {<<"r", "e", "f", "e", "r", "e", "n", "c", "e", "s">>,
     <<"b", "i", "b", "l", "i", "o", "g", "r", "a", "p", "h", "y">>,
     <<"r", "e", "f", "e", "r", "e", "n", "c", "e", " ", "l", "i", "s", "t">>,
     <<"w", "o", "r", "k", "s", " ", "c", "i", "t", "e", "d">>}

\* re.search of the heading tokens, re.I (line 198): the 1-based position
\* of the leftmost match, or 0
HeadingStart(s) ==
    MinOr({p \in 1..Len(s) : \E w \in HeadingWords : AtI(s, p, w)}, 0)

\* \".+\"|\'.+\' (line 205) found in a line: two equal quotes with at least
\* one character, and no line feed, between them
HasQuoted(s) ==
    \E p \in 1..Len(s) : \E q \in (p + 2)..Len(s) :
        /\ s[p] \in {DQ, "'"}
        /\ s[q] = s[p]
        /\ \A k \in (p + 1)..(q - 1) : s[k] # NL

-----------------------------------------------------------------------------
(* Lines and words.                                                        *)

RECURSIVE SplitAt(_, _)
\* the segments of s, b the position of its first line boundary or 0
SplitAt(s, b) ==
    IF b = 0 THEN <<s>>
    ELSE <<SubSeq(s, 1, b - 1)>>
         \o SplitAt(From(s, b), MinOr({p \in 1..(Len(s) - b) : s[b + p] \in LineBreaks}, 0))

\* the segments of s between line boundaries.  str.splitlines() takes \r\n
\* as one boundary; here it is two with an empty segment between, which the
\* callers drop with every other blank line.
SplitLines(s) == SplitAt(s, MinOr({p \in 1..Len(s) : s[p] \in LineBreaks}, 0))

NonBlank(ln) == IF ln # <<>> THEN <<ln>> ELSE <<>>

RECURSIVE StripNonBlank(_)
StripNonBlank(segs) ==
    IF segs = <<>> THEN <<>>
    ELSE NonBlank(Strip(Head(segs))) \o StripNonBlank(Tail(segs))

\* [ln.strip() for ln in s.splitlines() if ln.strip()] (lines 54, 202, 214)
NonBlankLines(s) == StripNonBlank(SplitLines(s))

\* len(ln.split())
WordCount(ln) ==
    Cardinality({p \in 1..Len(ln) :
        ln[p] \notin Whitespace /\ (p = 1 \/ ln[p - 1] \in Whitespace)})

-----------------------------------------------------------------------------
(* regex_fallback_metadata, lines 39-86.                                   *)

TitleWindow == 8
JournalWindow == 120

\* d[k] = v on a record
Put(d, k, v) == [x \in DOMAIN d \cup {k} |-> IF x = k THEN v ELSE d[x]]

\* d[k] = v when the heuristic found the text v
PutFound(d, k, v) == IF v # <<>> THEN Put(d, k, PStr(v)) ELSE d

\* the record of line 41 with the doi key left out
EmptyMetadataNoDoi == [k \in KeySet \ {"doi"} |-> PStr(<<>>)]

\* line 41 (and the record of line 130)
EmptyMetadata == [k \in KeySet |-> PStr(<<>>)]

\* line 60 without the comparison with the candidate: the first line with
\* 3 words stays
BetterTitleFirst(ln, candidate_title) ==
    WordCount(ln) >= 3 /\ candidate_title = <<>>

\* line 60 with >= for >: a later line with as many words replaces
BetterTitleOrEqual(ln, candidate_title) ==
    WordCount(ln) >= 3 /\ WordCount(ln) >= WordCount(candidate_title)

\* line 60
BetterTitle(ln, candidate_title) ==
    WordCount(ln) >= 3 /\ WordCount(ln) > WordCount(candidate_title)

RECURSIVE TitleScan(_, _)
\* lines 57-61: a line replaces the candidate only with at least 3 words
\* and strictly more words than the candidate
TitleScan(lns, candidate_title) ==
    IF lns = <<>> THEN candidate_title
    ELSE TitleScan(Tail(lns),
                   IF BetterTitle(Head(lns), candidate_title)
                   THEN Head(lns) ELSE candidate_title)

\* line 62: candidate_title or lines[0]
TitleOr(candidate_title, lns) ==
    IF candidate_title # <<>> THEN candidate_title ELSE lns[1]

\* lines 55-62; "" when there is no line
GuessTitle(lns) ==
    IF lns = <<>> THEN <<>> ELSE TitleOr(TitleScan(First(lns, TitleWindow), <<>>), lns)

\* lines 68-72: the line after the title's, unless it looks like an
\* affiliation; title_index = 0 stands for the ValueError of line 67
AuthorsAfter(lns, title_index) ==
    IF title_index # 0 /\ title_index + 1 <= Len(lns)
       /\ ~LooksLikeAffiliation(lns[title_index + 1])
    THEN lns[title_index + 1] ELSE <<>>

\* lines 65-74: lines.index gives the first line equal to the title
GuessAuthors(lns, title) ==
    IF title = <<>> THEN <<>>
    ELSE AuthorsAfter(lns, MinOr({i \in 1..Len(lns) : lns[i] = title}, 0))

\* w[i], or "" for i = 0
LineOr(w, i) == IF i = 0 THEN <<>> ELSE w[i]

\* lines 77-80 on the first 120 lines w: the first that names a venue
FirstJournal(w) == LineOr(w, MinOr({i \in 1..Len(w) : LooksLikeJournal(w[i])}, 0))

GuessJournal(lns) == FirstJournal(First(lns, JournalWindow))

\* the 4 characters at p, or "" for p = 0
YearFrom(t, p) == IF p = 0 THEN <<>> ELSE SubSeq(t, p, p + 3)

\* lines 49-51: the first 19xx or 20xx token
GuessYear(t) == YearFrom(t, MinOr({p \in 1..Len(t) : YearAt(t, p)}, 0))

\* m.group(0) of the match at p, or "" for p = 0
DoiFrom(t, p) == IF p = 0 THEN <<>> ELSE SubSeq(t, p, DoiEnd(t, p) - 1)

\* lines 44-46
GuessDoi(t) == DoiFrom(t, DoiStart(t))

\* lines 65-74 on the record that holds the title, if any
WithAuthors(m, lns) ==
    IF "title" \in DOMAIN m
    THEN PutFound(m, "authors", GuessAuthors(lns, m["title"].v))
    ELSE m

\* lines 83-84
StripAll(m) == [k \in DOMAIN m |-> PStr(Strip(m[k].v))]

\* lines 53-86, lns the non-blank lines of line 54
FromLines(m, lns) ==
    StripAll(PutFound(WithAuthors(PutFound(m, "title", GuessTitle(lns)), lns),
                      "journal", GuessJournal(lns)))

regex_fallback_metadata(t) ==
    FromLines(PutFound(PutFound(EmptyMetadata, "doi", GuessDoi(t)),
                       "year", GuessYear(t)),
              NonBlankLines(t))

-----------------------------------------------------------------------------
(* extract_citations, lines 196-217: the reference_lines of its result.    *)
(* The citations, dois and urls of lines 181-194 are computed from the     *)
(* text alone, before and apart from the two branches.                     *)

RefWindow == 400
TailChars == 4000
TailWindow == 200
LongLine == 40

\* lines 205-210: the test of Branch A
LooksLikeReference(ln) ==
    \/ HasFourDigits(ln)
    \/ DoiStart(ln) # 0
    \/ HasQuoted(ln)
    \/ Len(ln) > LongLine /\ (Count(ln, ",") >= 2 \/ Count(ln, ".") >= 2)

\* line 216: the test of Branch B
LooksLikeTailReference(ln) == DoiStart(ln) # 0 \/ HasFourDigits(ln)

RECURSIVE KeepReferences(_)
KeepReferences(lns) ==
    IF lns = <<>> THEN <<>>
    ELSE (IF LooksLikeReference(Head(lns)) THEN <<Head(lns)>> ELSE <<>>)
         \o KeepReferences(Tail(lns))

RECURSIVE KeepTailReferences(_)
KeepTailReferences(lns) ==
    IF lns = <<>> THEN <<>>
    ELSE (IF LooksLikeTailReference(Head(lns)) THEN <<Head(lns)>> ELSE <<>>)
         \o KeepTailReferences(Tail(lns))

\* lines 199-210: from the heading at position h to the end of the text
BranchA(t, h) == KeepReferences(First(NonBlankLines(From(t, h - 1)), RefWindow))

\* lines 211-217: the last lines of the last 4000 characters
BranchB(t) == KeepTailReferences(Last(NonBlankLines(Last(t, TailChars)), TailWindow))

\* lines 198-217 with Branch B as a second attempt
ChooseBranchOrTail(t, h) ==
    IF h # 0 /\ BranchA(t, h) # <<>> THEN BranchA(t, h) ELSE BranchB(t)

\* lines 198-217: one branch or the other, by the heading search alone
ChooseBranch(t, h) == IF h # 0 THEN BranchA(t, h) ELSE BranchB(t)

reference_lines(t) == ChooseBranch(t, HeadingStart(t))

extract_citations(t) == [reference_lines |-> reference_lines(t)]

-----------------------------------------------------------------------------
(* extract_text_from_pdf, lines 90-103.  An uploaded file is its pages'    *)
(* extracted text, or unreadable (pdfplumber raises).  The st.cache_data   *)
(* of line 90 returns what the function returns for the same file.         *)

RECURSIVE JoinPages(_)
\* lines 96-99: each page with text, followed by a line feed
JoinPages(pages) ==
    IF pages = <<>> THEN <<>>
    ELSE (IF Head(pages) # <<>> THEN Head(pages) \o <<NL>> ELSE <<>>)
         \o JoinPages(Tail(pages))

extract_text_from_pdf(f) == IF f.readable THEN Strip(JoinPages(f.pages)) ELSE <<>>

-----------------------------------------------------------------------------
(* extract_metadata_ai, lines 124-170, given how the model call ended.     *)
(* [ok |-> FALSE] is an exception raised inside a try block.               *)

\* lines 143-152: the raw response; an exception of co.chat and a missing
\* response text both give ""
RawOf(outcome) == IF outcome.raised THEN <<>> ELSE outcome.reply

\* parsed.get(key, default) on a dict
GetOr(kvs, key, default) == IF DictHas(kvs, key) THEN DictAt(kvs, key) ELSE default

\* lines 160-162, 164: a str is stripped, anything else gives ""
ValidateText(x) == IF IsStr(x) THEN PStr(Strip(x.v)) ELSE PStr(<<>>)

\* line 163: anything but None goes through str()
ValidateYear(x) == IF x.t # "None" THEN PStr(Strip(PyStrOf(x))) ELSE PStr(<<>>)

\* lines 159-165 on the pairs of a parsed dict
ValidatedRecord(kvs) ==
    [k \in KeySet |->
        IF k = "year" THEN ValidateYear(GetOr(kvs, KeyChars[k], PStr(<<>>)))
        ELSE ValidateText(GetOr(kvs, KeyChars[k], PStr(<<>>)))]

\* lines 157-165 on the result r of json.loads: parsed.get raises the
\* AttributeError on a value that is no dict
ValidateParsed(r) ==
    IF r.ok /\ r.val.t = "dict" THEN Ok(ValidatedRecord(r.val.v), 0) ELSE Fail

\* lines 154-165
TryValidate(raw) == ValidateParsed(json_loads(clean_ai_json(raw)))

\* lines 166-170: the validated record, or on an exception the heuristic
\* record, serialized
DumpOrFallback(t, v) ==
    IF v.ok THEN json_dumps(v.val) ELSE json_dumps(regex_fallback_metadata(t))

\* lines 129-170, the body that runs on a cache miss
extract_metadata_ai(t, client, outcome) ==
    IF ~client THEN json_dumps(EmptyMetadata)
    ELSE DumpOrFallback(t, TryValidate(RawOf(outcome)))

-----------------------------------------------------------------------------
(* The metadata tab, lines 264-286.                                        *)

\* (x or "").strip(): a truthy value that is no str raises the
\* AttributeError
OrEmptyStrip(x) ==
    IF ~Truthy(x) THEN Ok(PStr(<<>>), 0)
    ELSE IF IsStr(x) THEN Ok(PStr(Strip(x.v)), 0)
    ELSE Fail

\* str(x or "").strip()
OrEmptyStr(x) ==
    IF ~Truthy(x) THEN Ok(PStr(<<>>), 0) ELSE Ok(PStr(Strip(PyStrOf(x))), 0)

\* lines 273-279 on the pairs of a parsed dict, key by key
Coerced(kvs) ==
    [k \in KeySet |->
        IF k = "year" THEN OrEmptyStr(GetOr(kvs, KeyChars[k], PNone))
        ELSE OrEmptyStrip(GetOr(kvs, KeyChars[k], PNone))]

\* the record of lines 273-279, unless a key raised
AllCoerced(got) ==
    IF \A k \in KeySet : got[k].ok THEN Ok([k \in KeySet |-> got[k].val], 0) ELSE Fail

\* lines 271-279 on the result r of json.loads
ReparseParsed(r) ==
    IF r.ok /\ r.val.t = "dict" THEN AllCoerced(Coerced(r.val.v)) ELSE Fail

\* lines 267-279
TryReparse(mj) == ReparseParsed(json_loads(clean_ai_json(mj)))

\* lines 280-286: the record is kept when the try block ended with a record
\* that has a value
Kept(v) == v.ok /\ \E k \in KeySet : Truthy(v.val[k])

KeepOrFallback(t, v) == IF Kept(v) THEN v.val ELSE regex_fallback_metadata(t)

\* lines 266-286: the record the tab displays
FinalMetadata(t, mj) == KeepOrFallback(t, TryReparse(mj))

-----------------------------------------------------------------------------
(* Inputs: uploaded files, model outcomes, buttons.                        *)

MinTextLen == 80
PromptChars == 5000

\* n copies of the character c
Rep(c, n) == [i \in 1..n |-> c]

\* a file of 79 characters
ShortFile == [readable |-> TRUE, pages |-> <<Rep("x", MinTextLen - 1) \o <<NL>>>>]

\* the paper of the end-to-end scenario, on two pages with an empty page
\* between
PaperFile ==
    [readable |-> TRUE,
     pages |-> <<
        <<"D", "e", "e", "p", " ", "L", "e", "a", "r", "n", "i", "n", "g",
          " ", "f", "o", "r", " ", "X", NL, "J", ".", " ", "S", "m", "i",
          "t", "h", ",", " ", "A", ".", " ", "D", "o", "e", NL, "I", "E",
          "E", "E", " ", "T", "r", "a", "n", "s", "a", "c", "t", "i", "o",
          "n", "s", " ", "o", "n", " ", "Y", ",", " ", "2", "0", "2", "1">>,
        <<>>,
        <<".", ".", ".", " ", "1", "0", ".", "1", "1", "0", "9", "/", "T",
          "E", "S", "T", ".", "2", "0", "2", "1", ".", "1", "2", "3", " ",
          ".", ".", ".">>>>]

\* a paper whose title line holds a code fence, with a reference section
FencedFile ==
    [readable |-> TRUE,
     pages |-> <<
        <<"P", "a", "r", "s", "i", "n", "g", " ", Tick, Tick, Tick, "j",
          "s", "o", "n", " ", "f", "e", "n", "c", "e", "d", " ", "m", "o",
          "d", "e", "l", " ", "o", "u", "t", "p", "u", "t", NL, "A", ".",
          " ", "A", "u", "t", "h", "o", "r", ",", " ", "B", ".", " ", "W",
          "r", "i", "t", "e", "r", NL, "R", "e", "f", "e", "r", "e", "n",
          "c", "e", "s", NL, "p", "l", "a", "i", "n", " ", "w", "o", "r",
          "d", "s", NL, "K", ".", " ", "L", "e", "e", " ", "(", "1", "9",
          "9", "9", ")", " ", "N", "e", "t", "s", ".", NL>>,
        Rep("x", 20)>>]

\* with them a file pdfplumber cannot open, a scanned file whose pages have
\* no text, and a file of 80 characters after the strip of line 103
Files ==
    {[readable |-> FALSE, pages |-> <<>>],
     [readable |-> TRUE, pages |-> <<<<>>, <<>>>>],
     [readable |-> TRUE, pages |-> <<<<" ">> \o Rep("x", MinTextLen)>>],
     ShortFile, PaperFile, FencedFile}

\* Sorry, I cannot help
ReplyRefusal ==
    <<"S", "o", "r", "r", "y", ",", " ", "I", " ", "c", "a", "n", "n", "o",
      "t", " ", "h", "e", "l", "p">>
\* Here is the data: / (fence)json / {"title":"X"} / (fence)
ReplyFenced ==
    <<"H", "e", "r", "e", " ", "i", "s", " ", "t", "h", "e", " ", "d", "a",
      "t", "a", ":", NL, Tick, Tick, Tick, "j", "s", "o", "n", NL, "{", DQ,
      "t", "i", "t", "l", "e", DQ, ":", DQ, "X", DQ, "}", NL, Tick, Tick,
      Tick>>

Raised == [raised |-> TRUE, reply |-> <<>>]
Reply(r) == [raised |-> FALSE, reply |-> r]

\* how the call of co.chat can end: it raises, or the response has a text
Outcomes ==
    {Raised, Reply(ReplyRefusal), Reply(ReplyFenced),
     \* an empty response text
     Reply(
        <<>>),
     \* {"title": "  Deep Nets  ", "authors": ["A", "B"], "journal": null, "year": 2021, "doi": 5}
     Reply(
        <<"{", DQ, "t", "i", "t", "l", "e", DQ, ":", " ", DQ, " ", " ", "D",
          "e", "e", "p", " ", "N", "e", "t", "s", " ", " ", DQ, ",", " ",
          DQ, "a", "u", "t", "h", "o", "r", "s", DQ, ":", " ", "[", DQ, "A",
          DQ, ",", " ", DQ, "B", DQ, "]", ",", " ", DQ, "j", "o", "u", "r",
          "n", "a", "l", DQ, ":", " ", "n", "u", "l", "l", ",", " ", DQ,
          "y", "e", "a", "r", DQ, ":", " ", "2", "0", "2", "1", ",", " ",
          DQ, "d", "o", "i", DQ, ":", " ", "5", "}">>),
     \* {"year": true}
     Reply(
        <<"{", DQ, "y", "e", "a", "r", DQ, ":", " ", "t", "r", "u", "e", "}">>),
     \* {}
     Reply(
        <<"{", "}">>),
     \* [1, 2]
     Reply(
        <<"[", "1", ",", " ", "2", "]">>),
     \* {"title": "X"} trailing
     Reply(
        <<"{", DQ, "t", "i", "t", "l", "e", DQ, ":", " ", DQ, "X", DQ, "}",
          " ", "t", "r", "a", "i", "l", "i", "n", "g">>),
     \* {"title": false, "authors": {}, "year": [1]}
     Reply(
        <<"{", DQ, "t", "i", "t", "l", "e", DQ, ":", " ", "f", "a", "l",
          "s", "e", ",", " ", DQ, "a", "u", "t", "h", "o", "r", "s", DQ,
          ":", " ", "{", "}", ",", " ", DQ, "y", "e", "a", "r", DQ, ":",
          " ", "[", "1", "]", "}">>),
     \* {"year": 0, "doi": " 10.1/x "}
     Reply(
        <<"{", DQ, "y", "e", "a", "r", DQ, ":", " ", "0", ",", " ", DQ, "d",
          "o", "i", DQ, ":", " ", DQ, " ", "1", "0", ".", "1", "/", "x",
          " ", DQ, "}">>),
     \* {"title": "", "authors": " ", "year": null}
     Reply(
        <<"{", DQ, "t", "i", "t", "l", "e", DQ, ":", " ", DQ, DQ, ",", " ",
          DQ, "a", "u", "t", "h", "o", "r", "s", DQ, ":", " ", DQ, " ", DQ,
          ",", " ", DQ, "y", "e", "a", "r", DQ, ":", " ", "n", "u", "l",
          "l", "}">>),
     \* {"title": "A (fence)b(fence) C", "year": "2020 "}
     Reply(
        <<"{", DQ, "t", "i", "t", "l", "e", DQ, ":", " ", DQ, "A", " ",
          Tick, Tick, Tick, "b", Tick, Tick, Tick, " ", "C", DQ, ",", " ",
          DQ, "y", "e", "a", "r", DQ, ":", " ", DQ, "2", "0", "2", "0", " ",
          DQ, "}">>)}

\* the buttons of tabs 2 to 5; "none" is a run with no button pressed
Buttons == {"none", "summary", "findings", "questions", "terms"}

\* the sequences of at most n elements of S
SeqsUpTo(S, n) == UNION {[1..k -> S] : k \in 0..n}

RECURSIVE Concat(_)
Concat(ss) == IF ss = <<>> THEN <<>> ELSE Head(ss) \o Concat(Tail(ss))

RECURSIVE JoinLines(_)
\* "\n".join(lns)
JoinLines(lns) ==
    IF lns = <<>> THEN <<>>
    ELSE IF Len(lns) = 1 THEN lns[1]
    ELSE Head(lns) \o <<NL>> \o JoinLines(Tail(lns))

\* arguments of clean_ai_json: at most MaxPieces pieces in a row
MaxPieces == 4
CleanPieces == {Fence, FenceJson, <<Tick>>, <<"{">>, <<"[">>, <<" ">>, <<"a">>}
CleanInputs == {Concat(ps) : ps \in SeqsUpTo(CleanPieces, MaxPieces)}

\* arguments of regex_fallback_metadata: at most MaxLead lines, then at most
\* MaxFiller one-word lines, then at most MaxTrail lines
MaxLead == 1
MaxFiller == 8
MaxTrail == 2
TitleLines ==
    {<<"a", " ", "b", " ", "c">>, <<"d", " ", "e", " ", "f">>,
     <<"g", " ", "h", " ", "i", " ", "j">>, <<" ">>}
TitleInputs ==
    {JoinLines(lead \o [i \in 1..k |-> <<"x">>] \o trail) :
        lead \in SeqsUpTo(TitleLines, MaxLead),
        k \in 0..MaxFiller,
        trail \in SeqsUpTo(TitleLines, MaxTrail)}

\* arguments of extract_citations: at most MaxCiteLines lines
MaxCiteLines == 3
CiteLines ==
    {\* References
     <<"R", "e", "f", "e", "r", "e", "n", "c", "e", "s">>,
     \* my Bibliography 1999
     <<"m", "y", " ", "B", "i", "b", "l", "i", "o", "g", "r", "a", "p", "h",
       "y", " ", "1", "9", "9", "9">>,
     \* Smith 2020 paper
     <<"S", "m", "i", "t", "h", " ", "2", "0", "2", "0", " ", "p", "a", "p",
       "e", "r">>,
     \* see 10.1234/ab
     <<"s", "e", "e", " ", "1", "0", ".", "1", "2", "3", "4", "/", "a", "b">>,
     \* "Nets" again
     <<DQ, "N", "e", "t", "s", DQ, " ", "a", "g", "a", "i", "n">>,
     \* Lee, K., Kim, J., and Park, S. Learning deep nets. Press
     <<"L", "e", "e", ",", " ", "K", ".", ",", " ", "K", "i", "m", ",", " ",
       "J", ".", ",", " ", "a", "n", "d", " ", "P", "a", "r", "k", ",", " ",
       "S", ".", " ", "L", "e", "a", "r", "n", "i", "n", "g", " ", "d", "e",
       "e", "p", " ", "n", "e", "t", "s", ".", " ", "P", "r", "e", "s", "s">>,
     \* plain words
     <<"p", "l", "a", "i", "n", " ", "w", "o", "r", "d", "s">>}
CiteInputs == {JoinLines(lns) : lns \in SeqsUpTo(CiteLines, MaxCiteLines)}

-----------------------------------------------------------------------------
(* The script, lines 235-386.  Streamlit runs it from the top for an       *)
(* upload or a pressed button; its variables live for one run, the         *)
(* st.cache_data entries for the process.                                  *)

Unset == <<>>

Init ==
    /\ co \in BOOLEAN
    /\ pc = "idle"
    /\ text = Unset
    /\ metadata_json = Unset
    /\ metadata = Unset
    /\ cit_data = Unset
    /\ meta_cache = {}
    /\ prompt_cache = {}
    /\ uploads = 0
    /\ chat_calls = <<>>
    /\ origin = {}
    /\ invoked = {}
    /\ hit = FALSE
    /\ arg = Unset
    /\ ret = Unset

\* lines 237-239: a file arrives and its text is extracted
Upload(f) ==
    /\ pc = "idle"
    /\ text' = extract_text_from_pdf(f)
    /\ uploads' = uploads + 1
    /\ pc' = "gate"
    /\ UNCHANGED <<co, metadata_json, metadata, cit_data, meta_cache, prompt_cache,
                   chat_calls, origin, invoked, hit, arg, ret>>

\* line 241 without the length test
TooShortEmptyOnly(t) == t = <<>>

\* line 241: not text or len(text) < 80
TooShort(t) == t = <<>> \/ Len(t) < MinTextLen

\* lines 241-244: the warning, or on to the tabs
Gate ==
    /\ pc = "gate"
    /\ pc' = IF TooShort(text) THEN "warned" ELSE "tab1"
    /\ UNCHANGED <<co, text, metadata_json, metadata, cit_data, meta_cache,
                   prompt_cache, uploads, chat_calls, origin, invoked, hit, arg, ret>>

\* a cache that never has the entry
NeverCached(cache, key) == FALSE

\* st.cache_data: an entry for the argument is there
Cached(cache, key) == \E e \in cache : e.key = key
CacheValue(cache, key) == (CHOOSE e \in cache : e.key = key).value

\* line 123: the stored value on a hit, the body's on a miss
MemoizedMetadata(outcome) ==
    IF Cached(meta_cache, text) THEN CacheValue(meta_cache, text)
    ELSE extract_metadata_ai(text, co, outcome)

\* what a run of the body of extract_metadata_ai invokes
BodyInvokes(t, client, outcome) ==
    {"extract_metadata_ai"}
    \cup (IF client THEN {"co.chat"} ELSE {})
    \cup (IF client /\ ~TryValidate(RawOf(outcome)).ok
          THEN {"regex_fallback_metadata"} ELSE {})

\* what lines 266-286 invoke
TabInvokes(mj) == IF Kept(TryReparse(mj)) THEN {} ELSE {"regex_fallback_metadata"}

\* lines 264-286 with the result mj of the memoized call, was_hit telling
\* that the body did not run
ShowMetadata(outcome, was_hit, mj) ==
    /\ metadata_json' = mj
    /\ meta_cache' = IF was_hit THEN meta_cache
                     ELSE meta_cache \cup {[key |-> text, value |-> mj]}
    /\ chat_calls' = IF ~was_hit /\ co THEN Append(chat_calls, text) ELSE chat_calls
    /\ origin' = IF was_hit THEN origin
                 ELSE origin \cup {[key |-> text, client |-> co,
                                    outcome |-> IF co THEN outcome ELSE Raised]}
    /\ invoked' = invoked
                  \cup (IF was_hit THEN {} ELSE BodyInvokes(text, co, outcome))
                  \cup TabInvokes(mj)
    /\ hit' = was_hit
    /\ metadata' = FinalMetadata(text, mj)

\* lines 260-299: the memoized extract_metadata_ai (line 123), then the
\* tab's own cleaning, parsing and fallback
MetadataTab(outcome) ==
    /\ pc = "tab1"
    /\ ShowMetadata(outcome, Cached(meta_cache, text), MemoizedMetadata(outcome))
    /\ pc' = "tab2"
    /\ UNCHANGED <<co, text, cit_data, prompt_cache, uploads, arg, ret>>

\* the prompt of a button: lines 308, 320, 332-335 carry text[:5000], line
\* 350 the terms the user typed
PromptOf(b, t) ==
    IF b = "terms" THEN <<b, <<"G", "A", "N">>>> ELSE <<b, First(t, PromptChars)>>

\* lines 301-353: at most one button is pressed in a run; with a client the
\* memoized call_cohere_cached (lines 107-120) contacts the model on a miss
PromptTabs(b) ==
    /\ pc = "tab2"
    /\ IF b = "none" \/ ~co
       THEN UNCHANGED <<prompt_cache, invoked>>
       ELSE /\ prompt_cache' = prompt_cache \cup {PromptOf(b, text)}
            /\ invoked' = invoked \cup {"call_cohere_cached"}
                          \cup (IF PromptOf(b, text) \in prompt_cache THEN {}
                                ELSE {"co.chat"})
    /\ pc' = "tab6"
    /\ UNCHANGED <<co, text, metadata_json, metadata, cit_data, meta_cache,
                   uploads, chat_calls, origin, hit, arg, ret>>

\* lines 356-384
CitationsTab ==
    /\ pc = "tab6"
    /\ cit_data' = extract_citations(text)
    /\ invoked' = invoked \cup {"extract_citations"}
    /\ pc' = "done"
    /\ UNCHANGED <<co, text, metadata_json, metadata, meta_cache, prompt_cache,
                   uploads, chat_calls, origin, hit, arg, ret>>

MaxUploads == 2

\* the next run: the script starts again with fresh variables; the caches
\* stay
Rerun ==
    /\ pc \in {"warned", "done"}
    /\ uploads < MaxUploads
    /\ pc' = "idle"
    /\ text' = Unset
    /\ metadata_json' = Unset
    /\ metadata' = Unset
    /\ cit_data' = Unset
    /\ invoked' = {}
    /\ hit' = FALSE
    /\ UNCHANGED <<co, meta_cache, prompt_cache, uploads, chat_calls, origin, arg, ret>>

\* one run of the script in a fresh process, any file and any outcome
Next ==
    \/ \E f \in Files : Upload(f)
    \/ Gate
    \/ \E o \in Outcomes : MetadataTab(o)
    \/ \E b \in Buttons : PromptTabs(b)
    \/ CitationsTab

Spec == Init /\ [][Next]_vars

\* several runs in one process
SessionFiles == {ShortFile, PaperFile, FencedFile}
SessionOutcomes == {Raised, Reply(ReplyFenced), Reply(ReplyRefusal)}
SessionButtons == {"none", "summary"}

NextSession ==
    \/ \E f \in SessionFiles : Upload(f)
    \/ Gate
    \/ \E o \in SessionOutcomes : MetadataTab(o)
    \/ \E b \in SessionButtons : PromptTabs(b)
    \/ CitationsTab
    \/ Rerun

SpecSession == Init /\ [][NextSession]_vars

-----------------------------------------------------------------------------
(* The three text functions called on their own, on each argument of the   *)
(* bounded sets above.                                                     *)

UnitCalls ==
    {[fn |-> "clean_ai_json", x |-> s] : s \in CleanInputs}
    \cup {[fn |-> "regex_fallback_metadata", x |-> s] : s \in TitleInputs}
    \cup {[fn |-> "extract_citations", x |-> s] : s \in CiteInputs}

InitUnit ==
    /\ co = FALSE
    /\ pc = "call"
    /\ text = Unset
    /\ metadata_json = Unset
    /\ metadata = Unset
    /\ cit_data = Unset
    /\ meta_cache = {}
    /\ prompt_cache = {}
    /\ uploads = 0
    /\ chat_calls = <<>>
    /\ origin = {}
    /\ invoked = {}
    /\ hit = FALSE
    /\ arg \in UnitCalls
    /\ ret = Unset

\* the result of the call, whichever function it is
Returns(v) ==
    /\ ret' = v
    /\ pc' = "returned"
    /\ UNCHANGED <<co, text, metadata_json, metadata, cit_data, meta_cache,
                   prompt_cache, uploads, chat_calls, origin, invoked, hit, arg>>

CallClean ==
    /\ pc = "call"
    /\ arg.fn = "clean_ai_json"
    /\ Returns(clean_ai_json(arg.x))

CallRegex ==
    /\ pc = "call"
    /\ arg.fn = "regex_fallback_metadata"
    /\ Returns(regex_fallback_metadata(arg.x))

CallCitations ==
    /\ pc = "call"
    /\ arg.fn = "extract_citations"
    /\ Returns(extract_citations(arg.x))

NextUnit == CallClean \/ CallRegex \/ CallCitations

SpecUnit == InitUnit /\ [][NextUnit]_vars

-----------------------------------------------------------------------------
(* Properties.                                                             *)

\* the metadata tab of this run has run
Shown == pc \in {"tab2", "tab6", "done"}

\* the call of fn on its own has returned
Called(fn) == pc = "returned" /\ arg.fn = fn

\* a record with exactly the five keys, every value a string
WellFormed(md) == DOMAIN md = KeySet /\ \A k \in KeySet : IsStr(md[k])

\* the model outcome behind the value extract_metadata_ai gave for text
OutcomeOf(t) == CHOOSE e \in origin : e.key = t

\* C1: whatever the document and however the model call ends (no client,
\* an exception, any response text), the record the metadata tab displays
\* and the record of regex_fallback_metadata have exactly the keys title,
\* authors, journal, year and doi, each with a string value; a failure
\* inside either is caught and never ends the run.
C1_FiveStringFields ==
    /\ WellFormed(regex_fallback_metadata(text))
    /\ Shown => WellFormed(metadata)

\* C1: a response whose fields are a boolean, an object and a list has been
\* through the pipeline
C1_Witness ==
    /\ Shown
    /\ co
    /\ ~OutcomeOf(text).outcome.raised
    /\ metadata["year"] = PStr(<<"[", "1", "]">>)
    /\ metadata["title"] = PStr(<<>>)

\* the AI path gave no usable result: no client, an exception of the model
\* call, or a response that does not parse after normalization
NoUsableResult(e) ==
    \/ ~e.client
    \/ e.outcome.raised
    \/ ~json_loads(clean_ai_json(e.outcome.reply)).ok

\* C2: when the AI path gives no usable result, the displayed record equals
\* regex_fallback_metadata of the full text, field for field.
C2_FallbackIsHeuristic ==
    Shown /\ NoUsableResult(OutcomeOf(text))
        => metadata = regex_fallback_metadata(text)

\* the validated AI record of lines 159-165, all-empty without a client
ValidatedOf(e) == IF e.client THEN TryValidate(RawOf(e.outcome)) ELSE Ok(EmptyMetadata, 0)

\* the record C3 states for the validated result v
OneOfTwo(t, v) ==
    IF v.ok /\ \E k \in KeySet : v.val[k].v # <<>> THEN v.val
    ELSE regex_fallback_metadata(t)

\* C3: the displayed record is the validated AI record when the response
\* parses and that record has a non-empty field, and else the heuristic
\* record of the full text; never anything between the two.
C3_OneOfTwoRecords ==
    Shown => metadata = OneOfTwo(text, ValidatedOf(OutcomeOf(text)))

\* the text of the end-to-end scenario
ScenarioText ==
    <<"D", "e", "e", "p", " ", "L", "e", "a", "r", "n", "i", "n", "g", " ",
      "f", "o", "r", " ", "X", NL, "J", ".", " ", "S", "m", "i", "t", "h",
      ",", " ", "A", ".", " ", "D", "o", "e", NL, "I", "E", "E", "E", " ",
      "T", "r", "a", "n", "s", "a", "c", "t", "i", "o", "n", "s", " ", "o",
      "n", " ", "Y", ",", " ", "2", "0", "2", "1", NL, ".", ".", ".", " ",
      "1", "0", ".", "1", "1", "0", "9", "/", "T", "E", "S", "T", ".", "2",
      "0", "2", "1", ".", "1", "2", "3", " ", ".", ".", ".">>

\* C4, as the specification states it: without a client the scenario text
\* gives the title "Deep Learning for X" and the authors "J. Smith, A. Doe".
C4_ScenarioAsStated ==
    Shown /\ ~co /\ text = ScenarioText
        => metadata =
            [title |->
                PStr(
                    <<"D", "e", "e", "p", " ", "L", "e", "a", "r", "n", "i",
                      "n", "g", " ", "f", "o", "r", " ", "X">>),
             authors |->
                PStr(
                    <<"J", ".", " ", "S", "m", "i", "t", "h", ",", " ", "A",
                      ".", " ", "D", "o", "e">>),
             journal |->
                PStr(
                    <<"I", "E", "E", "E", " ", "T", "r", "a", "n", "s", "a",
                      "c", "t", "i", "o", "n", "s", " ", "o", "n", " ", "Y",
                      ",", " ", "2", "0", "2", "1">>),
             year |->
                PStr(
                    <<"2", "0", "2", "1">>),
             doi |->
                PStr(
                    <<"1", "0", ".", "1", "1", "0", "9", "/", "T", "E", "S",
                      "T", ".", "2", "0", "2", "1", ".", "1", "2", "3">>)]

\* C4: without a client the scenario text gives the record of the
\* heuristics: the title is the line with the most words among the first 8,
\* "IEEE Transactions on Y, 2021" (5 words against 4), the authors are the
\* line after it, journal, year and doi as stated.
C4_Scenario ==
    Shown /\ ~co /\ text = ScenarioText
        => metadata =
            [title |->
                PStr(
                    <<"I", "E", "E", "E", " ", "T", "r", "a", "n", "s", "a",
                      "c", "t", "i", "o", "n", "s", " ", "o", "n", " ", "Y",
                      ",", " ", "2", "0", "2", "1">>),
             authors |->
                PStr(
                    <<".", ".", ".", " ", "1", "0", ".", "1", "1", "0", "9",
                      "/", "T", "E", "S", "T", ".", "2", "0", "2", "1", ".",
                      "1", "2", "3", " ", ".", ".", ".">>),
             journal |->
                PStr(
                    <<"I", "E", "E", "E", " ", "T", "r", "a", "n", "s", "a",
                      "c", "t", "i", "o", "n", "s", " ", "o", "n", " ", "Y",
                      ",", " ", "2", "0", "2", "1">>),
             year |->
                PStr(
                    <<"2", "0", "2", "1">>),
             doi |->
                PStr(
                    <<"1", "0", ".", "1", "1", "0", "9", "/", "T", "E", "S",
                      "T", ".", "2", "0", "2", "1", ".", "1", "2", "3">>)]

\* C4: the scenario text has been through the metadata tab without a client
C4_Witness == Shown /\ ~co /\ text = ScenarioText /\ metadata # Unset

\* the field C5 states for the key k of the parsed pairs kvs
StatedField(kvs, k, x) ==
    IF ~DictHas(kvs, KeyChars[k]) THEN <<>>
    ELSE IF IsStr(x) THEN Strip(x.v)
    ELSE IF k = "year" /\ x.t = "int" THEN IntStr(x.v)
    ELSE <<>>

StatedRecord(kvs) ==
    [k \in KeySet |-> PStr(StatedField(kvs, k, GetOr(kvs, KeyChars[k], PNone)))]

\* the record C5 states for the result r of parsing the response
StatedFor(r) ==
    IF r.ok /\ r.val.t = "dict" THEN json_dumps(StatedRecord(r.val.v)) ELSE metadata_json

\* C5: when the response parses as an object, each field of the validated
\* record is "" for a missing or non-text value, the trimmed text for a
\* text value, and the text form of the number for a numeric year.
C5_Coercion ==
    Shown /\ OutcomeOf(text).client /\ ~OutcomeOf(text).outcome.raised
        => metadata_json =
               StatedFor(json_loads(clean_ai_json(OutcomeOf(text).outcome.reply)))

\* the lines from the heading at h on, stripped, blank ones dropped
AfterHeading(t, h) == NonBlankLines(From(t, h - 1))

\* rl holds only lines of cand that pass the test of Branch A, and none
\* when no line of cand passes
OnlyQualifying(rl, cand) ==
    /\ \A i \in DOMAIN rl :
           \E j \in DOMAIN cand : cand[j] = rl[i] /\ LooksLikeReference(cand[j])
    /\ (\A j \in DOMAIN cand : ~LooksLikeReference(cand[j])) => rl = <<>>

\* C6: when the text holds a heading token, reference_lines holds only
\* lines from the first heading on that pass the Branch A test, and is
\* empty when none passes, whatever Branch B would keep of the text's end.
C6_BranchExclusive ==
    Called("extract_citations") /\ HeadingStart(arg.x) # 0
        => OnlyQualifying(ret.reference_lines,
                          AfterHeading(arg.x, HeadingStart(arg.x)))

\* C6: a heading, no qualifying line after it, and a line before it that
\* Branch B would keep
C6_Witness ==
    /\ Called("extract_citations")
    /\ HeadingStart(arg.x) # 0
    /\ ret.reference_lines = <<>>
    /\ BranchB(arg.x) # <<>>

ExtractionCalls ==
    {"extract_metadata_ai", "regex_fallback_metadata", "extract_citations",
     "co.chat", "call_cohere_cached"}

\* C7: a run whose text is empty or shorter than 80 characters ends at the
\* warning with no metadata function, citation function or model call
\* invoked; a run whose text has 80 characters or more never takes the
\* warning, and its metadata and citation extraction are invoked.
C7_LengthGate ==
    /\ pc \notin {"idle", "gate"} /\ Len(text) < MinTextLen => pc = "warned"
    /\ pc = "warned" => Len(text) < MinTextLen /\ invoked \cap ExtractionCalls = {}
    /\ Shown => "extract_metadata_ai" \in invoked
    /\ pc = "done" => "extract_citations" \in invoked

\* C7: a text of 79 characters has ended at the warning
C7_Witness == pc = "warned" /\ Len(text) = MinTextLen - 1

HasFence(s) == \E p \in 1..Len(s) : At(s, p, Fence)

\* the positions of { and [ in s
Delimiters(s) == {p \in 1..Len(s) : s[p] \in {"{", "["}}

\* what C8 states of the result r for the fence-stripped input f
FromDelimiter(r, f, ds) ==
    IF ds # {}
    THEN r # <<>> /\ r[1] \in {"{", "["} /\ r = Strip(SubSeq(f, Min(ds), Len(f)))
    ELSE r = Strip(f)

\* C8, as the specification states it: without a delimiter the result is
\* the trimmed input.
C8_TrimmedInputAsStated ==
    Called("clean_ai_json") /\ Delimiters(StripFences(Strip(arg.x))) = {}
        => ret = Strip(arg.x)

\* C8: the result holds no code fence; it is empty for the empty input;
\* when the fence-stripped input holds { or [, it starts at the earliest of
\* them and is the fence-stripped input from there on, trimmed; when it
\* holds neither, it is the fence-stripped input, trimmed.
C8_CleanAiJson ==
    Called("clean_ai_json")
        => /\ ~HasFence(ret)
           /\ arg.x = <<>> => ret = <<>>
           /\ FromDelimiter(ret, StripFences(Strip(arg.x)),
                            Delimiters(StripFences(Strip(arg.x))))

\* C8: an input with a fence and no delimiter, whose result is not the
\* trimmed input
C8_Witness ==
    /\ Called("clean_ai_json")
    /\ HasFence(arg.x)
    /\ Delimiters(arg.x) = {}
    /\ ret # <<>>
    /\ ret # Strip(arg.x)

\* the title C9 states for the non-blank lines lns, w the first 8 of them
\* and mx the greatest word count in w
StatedTitle(lns, w, mx) ==
    IF mx >= 3 THEN w[Min({i \in DOMAIN w : WordCount(w[i]) = mx})] ELSE lns[1]

TitleOf(lns) ==
    StatedTitle(lns, First(lns, TitleWindow),
                Max({WordCount(lns[i]) : i \in DOMAIN First(lns, TitleWindow)}))

\* C9: for a text with a non-blank line the title is the earliest of the
\* first 8 non-blank lines with the greatest word count, when that count is
\* at least 3, and else the first non-blank line.
C9_TitleRule ==
    Called("regex_fallback_metadata") /\ NonBlankLines(arg.x) # <<>>
        => ret["title"].v = TitleOf(NonBlankLines(arg.x))

\* two different lines among the first 8 of lns tie at the greatest count
TieAmongFirst(lns, w) ==
    \E i, j \in DOMAIN w :
        /\ i < j
        /\ w[i] # w[j]
        /\ WordCount(w[i]) = WordCount(w[j])
        /\ WordCount(w[i]) >= 3
        /\ \A k \in DOMAIN w : WordCount(w[k]) <= WordCount(w[i])
        /\ \E k \in DOMAIN lns : k > Len(w) /\ WordCount(lns[k]) > WordCount(w[i])

\* C9: two lines tie among the first 8 and a line after the 8th has more
\* words than both
C9_Witness ==
    /\ Called("regex_fallback_metadata")
    /\ TieAmongFirst(NonBlankLines(arg.x), First(NonBlankLines(arg.x), TitleWindow))

\* no text twice among the model calls; one entry per text; the value of
\* this run is the entry of its text
MemoizedState ==
    /\ \A i, j \in DOMAIN chat_calls : chat_calls[i] = chat_calls[j] => i = j
    /\ \A e1, e2 \in meta_cache : e1.key = e2.key => e1 = e2
    /\ Shown => [key |-> text, value |-> metadata_json] \in meta_cache

\* entries stay as they are, and a hit makes no model call
MemoizedStep ==
    /\ meta_cache \subseteq meta_cache'
    /\ hit' /\ ~hit => chat_calls' = chat_calls

\* C10: over the runs of one process extract_metadata_ai calls the model at
\* most once for a text; an entry of its cache is never changed or removed;
\* a later run with the same text gets the stored value with no model call,
\* also when that value is the heuristic fallback after a failed call.
C10_MemoizedOnce == []MemoizedState /\ [][MemoizedStep]_vars

\* C10: a second run of a text whose first model call raised was served
\* from the cache
C10_Witness ==
    /\ hit
    /\ co
    /\ Shown
    /\ OutcomeOf(text).outcome.raised
    /\ Len(chat_calls) = 1

====
